---- MODULE Spec2Model ----
(***************************************************************************)
(* A model of the poker hand history parser: the card model (card.py),     *)
(* the street texture analyser and the generic parse pipeline              *)
(* (handhistory.py) and the Full Tilt Poker adapter                        *)
(* (room/fulltiltpoker.py).                                                *)
(*                                                                         *)
(* Text is modelled at the level the code reads it: a raw hand history is  *)
(* a sequence of tokens (line texts, newlines and "***" separators), a     *)
(* line text is a record naming the line shape the adapter's regular       *)
(* expressions distinguish together with the groups they capture, numbers  *)
(* in the text are digit sequences and cards are two-character sequences.  *)
(* Python sequences are indexed from 0 in the code and from 1 here; the    *)
(* operators below keep the code's 0-based indices and convert on access.  *)
(***************************************************************************)
EXTENDS Integers, Sequences, FiniteSets, TLC

VARIABLES
    hand,      \* the hand the raw text was generated from (input descriptor)
    hh,        \* the hand history object: its attributes
    pc,        \* position inside a running parse() call, "idle" between calls
    trace,     \* the steps the current (or last) call has started, in order
    err,       \* outcome of the current (or last) call
    call,      \* which method the current (or last) call is
    snap,      \* hh as it was when the current (or last) call started
    calls,     \* number of calls made on the object
    inst,      \* a _Street instance: cards, actions, pot
    itpos,     \* how many pairs of inst._all_combinations were consumed
    cache,     \* the cached_property values stored on the street instance
    last,      \* the last property read on the street and the value returned
    nreads     \* number of property reads made on the street

vars == <<hand, hh, pc, trace, err, call, snap, calls,
          inst, itpos, cache, last, nreads>>
hhvars == <<hand, hh, pc, trace, err, call, snap, calls>>
streetvars == <<inst, itpos, cache, last, nreads>>

(***************************************************************************)
(* Bounds of the model.                                                    *)
(***************************************************************************)
MaxSeat == 2        \* seat numbers of the seat lines are 1..MaxSeat
MaxSeatLines == 2   \* a hand has at most this many seat lines
MaxCalls == 3       \* parse() / parse_header() calls made on one object
MaxReads == 3       \* property reads made on one street

(***************************************************************************)
(* Python values: an attribute that was never assigned, None, or a value.  *)
(***************************************************************************)
Unset == [k |-> "unset"]
None == [k |-> "none"]
Val(v) == [k |-> "val", v |-> v]
Truthy(x) == x.k = "val"

Min(a, b) == IF a < b THEN a ELSE b
Abs(n) == IF n < 0 THEN -n ELSE n

\* seq[i] with a 0-based index, a negative one counting from the end
PyGet(seq, i) == IF i < 0 THEN seq[Len(seq) + i + 1] ELSE seq[i + 1]
\* whether seq[i] exists (otherwise IndexError)
HasIndex(seq, i) == -Len(seq) <= i /\ i < Len(seq)
\* seq[start:stop] with 0-based indices, 0 <= start
PySlice(seq, start, stop) == SubSeq(seq, start + 1, Min(stop, Len(seq)))
\* seq[start:]
PyFrom(seq, start) == SubSeq(seq, start + 1, Len(seq))
\* seq.index(x): the first 0-based index holding x, -1 standing for ValueError
PyIndex(seq, x) ==
    IF \E i \in 1..Len(seq) : seq[i] = x
    THEN (CHOOSE i \in 1..Len(seq) :
             seq[i] = x /\ \A j \in 1..(i - 1) : seq[j] # x) - 1
    ELSE -1

RECURSIVE DigitsToNat(_)
\* int("...") / Decimal("...") of a string of decimal digits
DigitsToNat(ds) ==
    IF ds = <<>> THEN 0
    ELSE 10 * DigitsToNat(SubSeq(ds, 1, Len(ds) - 1)) + ds[Len(ds)]

RECURSIVE Concat(_)
Concat(groups) ==
    IF groups = <<>> THEN <<>> ELSE Head(groups) \o Concat(Tail(groups))

\* _make_int("1,500"): drop the thousands separators, then int()
MakeInt(groups) == DigitsToNat(Concat(groups))

(***************************************************************************)
(* card.py: ranks, suits, cards.                                           *)
(***************************************************************************)
\* Rank.__order__: the canonical sequence of rank symbols
RankOrder == <<"2", "3", "4", "5", "6", "7", "8", "9", "T", "J", "Q", "K", "A">>

\* list(Rank).index(Rank(r))
RankIndex(r) == PyIndex(RankOrder, r)

\* the mutant of RankDifference that forgets the absolute value
RankDifferenceSigned(first, second) == RankIndex(first) - RankIndex(second)

\* Rank.difference(first, second)
RankDifference(first, second) == Abs(RankIndex(first) - RankIndex(second))

\* Card(text) for a two-character text <<rank, suit>>
Card(text) == [rank |-> text[1], suit |-> text[2]]

(***************************************************************************)
(* The rank specification: Rank.difference is called on any two ranks.     *)
(***************************************************************************)
RankSymbols == {RankOrder[i] : i \in 1..Len(RankOrder)}

RankInit ==
    /\ hand \in [first : RankSymbols, second : RankSymbols]
    /\ last = [prop |-> "none", got |-> [k |-> "unset"]]
    /\ hh = [k |-> "idle"] /\ snap = [k |-> "idle"]
    /\ inst = [k |-> "idle"] /\ cache = [k |-> "idle"]
    /\ pc = "idle" /\ trace = <<>> /\ err = "none" /\ call = "none"
    /\ calls = 0 /\ itpos = 0 /\ nreads = 0

\* a caller calls Rank.difference(first, second)
CallDifference ==
    /\ last' = [prop |-> "difference", got |-> RankDifference(hand.first, hand.second)]
    /\ UNCHANGED <<hand, hh, pc, trace, err, call, snap, calls>>
    /\ UNCHANGED <<inst, itpos, cache, nreads>>

RankNext == CallDifference

RankSpec == RankInit /\ [][RankNext]_vars

(***************************************************************************)
(* Line texts.  A line is a record: t names the shape of the line, the     *)
(* other fields are the substrings the adapter's patterns capture.         *)
(***************************************************************************)
Empty == [t |-> "empty"]
Txt(s) == [t |-> "text", s |-> s]
\* "name verb [amount]" and the other action lines of a street
ActionLine(form, name, verb, amount) ==
    [t |-> "action", form |-> form, name |-> name, verb |-> verb, amount |-> amount]
\* "[c1 c2 c3] [c4] (Total Pot: pot, n Players)": the cards of the first
\* bracket, those of the second (none on the flop line), the pot, the players
StreetLine(shown, dealt, pot, n) ==
    [t |-> "streetline", shown |-> shown, dealt |-> dealt, pot |-> pot, nplayers |-> n]
\* "Seat n: name (stack)"
SeatLine(seat, name, stack) ==
    [t |-> "seat", seat |-> seat, name |-> name, stack |-> stack]
\* "The button is in seat #n"
ButtonLine(seat) == [t |-> "button", seat |-> seat]
\* "Dealt to name [c1 c2]"
DealtLine(name, c1, c2) == [t |-> "dealt", name |-> name, c1 |-> c1, c2 |-> c2]
\* "Total pot n | Rake r", n with thousands separators
PotLine(pot, rake) == [t |-> "pot", pot |-> pot, rake |-> rake]
\* "Board: [c1 c2 c3 c4 c5]"
BoardLine(cards) == [t |-> "board", cards |-> cards]
\* "Seat n: name ... collected (amount), ...", "... showed [..] and won ...",
\* "... folded ..." of the summary
SummaryLine(seat, name, kind, amount) ==
    [t |-> "sumseat", seat |-> seat, name |-> name, kind |-> kind, amount |-> amount]
\* the separator tokens of a raw text
NL == [t |-> "NL"]
STARS == [t |-> "STARS"]

(***************************************************************************)
(* fulltiltpoker.py: _Street, the flop with its actions.                   *)
(***************************************************************************)
\* _Street._parse_cards(boardline): boardline[1:3], [4:6], [7:9]
ParseCards(boardline) ==
    <<Card(boardline.shown[1]), Card(boardline.shown[2]), Card(boardline.shown[3])>>

\* _parse_uncalled, _parse_raise, _parse_win, _parse_muck, _parse_think,
\* _parse_player_action: the _PlayerAction of one action line, or the
\* exception Decimal('') raises on an empty amount (the plain action line
\* without an amount has the amount None)
ParseAction(line) ==
    CASE line.form \in {"uncalled", "raise", "win"} /\ line.amount = <<>> ->
            [raised |-> "InvalidOperation"]
      [] line.form = "uncalled" /\ line.amount # <<>> ->
            [name |-> line.name, action |-> "RETURN", amount |-> Val(DigitsToNat(line.amount))]
      [] line.form = "raise" /\ line.amount # <<>> ->
            [name |-> line.name, action |-> "RAISE", amount |-> Val(DigitsToNat(line.amount))]
      [] line.form = "win" /\ line.amount # <<>> ->
            [name |-> line.name, action |-> "WIN", amount |-> Val(DigitsToNat(line.amount))]
      [] line.form = "muck" ->
            [name |-> line.name, action |-> "MUCK", amount |-> None]
      [] line.form = "think" ->
            [name |-> line.name, action |-> "THINK", amount |-> None]
      [] OTHER ->
            [name |-> line.name, action |-> line.verb,
             amount |-> IF line.amount = <<>> THEN None ELSE Val(DigitsToNat(line.amount))]

\* _Street._parse_actions(actionlines): tuple(actions) if actions else None;
\* the exception of the first line that raises leaves the loop
ParseActions(actionlines) ==
    LET actions == [i \in 1..Len(actionlines) |-> ParseAction(actionlines[i])]
        bad == {i \in 1..Len(actionlines) : "raised" \in DOMAIN actions[i]}
    IN  IF bad # {} THEN actions[CHOOSE i \in bad : \A j \in bad : i <= j]
        ELSE IF actionlines = <<>> THEN None
        ELSE Val(actions)

\* the pot a "wins the pot (n)" line leaves in self.pot (the last one wins)
\* when _parse_actions returns
StreetPot(actionlines) ==
    LET wins == {i \in 1..Len(actionlines) : actionlines[i].form = "win"}
    IN  IF "raised" \in DOMAIN ParseActions(actionlines) THEN ParseActions(actionlines)
        ELSE IF wins = {} THEN None
        ELSE Val(DigitsToNat(actionlines[CHOOSE i \in wins : \A j \in wins : j <= i].amount))

\* _BaseStreet.__init__(flop): cards from flop[0], actions from flop[1:]; an
\* exception of _parse_actions leaves the constructor
NewStreet(floplines) ==
    LET actions == ParseActions(Tail(floplines))
    IN  IF "raised" \in DOMAIN actions THEN actions
        ELSE [cards |-> ParseCards(floplines[1]),
              actions |-> actions,
              pot |-> StreetPot(Tail(floplines))]

\* itertools.combinations(cards, 2) as the sequence it yields
RECURSIVE Combinations2(_)
Combinations2(cards) ==
    IF Len(cards) < 2 THEN <<>>
    ELSE [i \in 1..(Len(cards) - 1) |-> <<cards[1], cards[i + 1]>>]
         \o Combinations2(Tail(cards))

\* what is left of the iterator self._all_combinations after pos pairs were taken
AllCombinations(cards, pos) == PyFrom(Combinations2(cards), pos)

\* all(flag for ...) over the generator's values for the pairs left in the
\* iterator: the value, and the number of pairs it takes from the iterator
\* (it stops after the first false flag)
AllOf(flags) ==
    LET bad == {i \in 1..Len(flags) : ~flags[i]}
    IN  IF bad = {} THEN [value |-> TRUE, taken |-> Len(flags)]
        ELSE [value |-> FALSE, taken |-> CHOOSE i \in bad : \A j \in bad : i <= j]

\* any(flag for ...): it stops after the first true flag
AnyOf(flags) ==
    LET good == {i \in 1..Len(flags) : flags[i]}
    IN  IF good = {} THEN [value |-> FALSE, taken |-> Len(flags)]
        ELSE [value |-> TRUE, taken |-> CHOOSE i \in good : \A j \in good : i <= j]

SameSuit(pair) == pair[1].suit = pair[2].suit
OtherSuit(pair) == pair[1].suit # pair[2].suit
SameRank(pair) == pair[1].rank = pair[2].rank
\* _get_differences: Rank.difference(first.rank, second.rank) of a pair
Difference(pair) == RankDifference(pair[1].rank, pair[2].rank)
Within3(pair) == 1 <= Difference(pair) /\ Difference(pair) <= 3
Within4(pair) == 1 <= Difference(pair) /\ Difference(pair) <= 4

RECURSIVE EveryAppearance(_, _)
\* the mutant of FirstAppearance that appends the name of every action
EveryAppearance(actions, seen) ==
    IF actions = <<>> THEN seen
    ELSE EveryAppearance(Tail(actions), Append(seen, Head(actions).name))

RECURSIVE FirstAppearance(_, _)
\* the loop of _BaseStreet.players: names in order of first appearance
FirstAppearance(actions, seen) ==
    IF actions = <<>> THEN seen
    ELSE FirstAppearance(Tail(actions),
            IF \E i \in 1..Len(seen) : seen[i] = Head(actions).name
            THEN seen ELSE Append(seen, Head(actions).name))

\* _BaseStreet.players
StreetPlayers(s) ==
    IF ~Truthy(s.actions) THEN None ELSE Val(FirstAppearance(s.actions.v, <<>>))

TextureProps == {"is_rainbow", "is_monotone", "is_triplet", "has_pair",
                 "has_straightdraw", "has_gutshot", "has_flushdraw"}
Props == TextureProps \cup {"players"}

\* the body of a texture property, run on the rest of the iterator
Compute(p, rest) ==
    CASE p = "is_rainbow" -> AllOf([i \in 1..Len(rest) |-> OtherSuit(rest[i])])
      [] p = "is_monotone" -> AllOf([i \in 1..Len(rest) |-> SameSuit(rest[i])])
      [] p = "is_triplet" -> AllOf([i \in 1..Len(rest) |-> SameRank(rest[i])])
      [] p = "has_pair" -> AnyOf([i \in 1..Len(rest) |-> SameRank(rest[i])])
      [] p = "has_straightdraw" -> AnyOf([i \in 1..Len(rest) |-> Within3(rest[i])])
      [] p = "has_gutshot" -> AnyOf([i \in 1..Len(rest) |-> Within4(rest[i])])
      [] p = "has_flushdraw" -> AnyOf([i \in 1..Len(rest) |-> SameSuit(rest[i])])

\* the mutant of ReadProp that runs the body of the property on every read
ReadPropUncached(p) ==
    /\ nreads < MaxReads
    /\ nreads' = nreads + 1
    /\ IF p = "players"
       THEN /\ cache' = [cache EXCEPT ![p] = Val(StreetPlayers(inst))]
            /\ last' = [prop |-> p, got |-> StreetPlayers(inst)]
            /\ UNCHANGED itpos
       ELSE LET r == Compute(p, AllCombinations(inst.cards, itpos))
            IN  /\ cache' = [cache EXCEPT ![p] = Val(r.value)]
                /\ itpos' = itpos + r.taken
                /\ last' = [prop |-> p, got |-> r.value]
    /\ UNCHANGED inst
    /\ UNCHANGED hhvars

\* Reading property p of the street: cached_property runs the body on the
\* first read, stores the value on the instance and returns the stored value
\* on every later read.
ReadProp(p) ==
    /\ nreads < MaxReads
    /\ nreads' = nreads + 1
    /\ IF cache[p] # Unset
       THEN /\ last' = [prop |-> p, got |-> cache[p].v]
            /\ UNCHANGED <<cache, itpos>>
       ELSE IF p = "players"
       THEN /\ cache' = [cache EXCEPT ![p] = Val(StreetPlayers(inst))]
            /\ last' = [prop |-> p, got |-> StreetPlayers(inst)]
            /\ UNCHANGED itpos
       ELSE LET r == Compute(p, AllCombinations(inst.cards, itpos))
            IN  /\ cache' = [cache EXCEPT ![p] = Val(r.value)]
                /\ itpos' = itpos + r.taken
                /\ last' = [prop |-> p, got |-> r.value]
    /\ UNCHANGED inst
    /\ UNCHANGED hhvars

(***************************************************************************)
(* The street specification: a flop is built from its lines, then its      *)
(* properties are read in any order, any number of times.                  *)
(***************************************************************************)
\* the rank and suit symbols flops are drawn from
StreetRanks == {"2", "3", "6", "A"}
StreetSuits == {"c", "d", "h"}
CardTexts == {<<r, s>> : r \in StreetRanks, s \in StreetSuits}

\* the action lines that may follow the flop line
StreetActionLines ==
    { <<>>,
      << ActionLine("plain", "a", "checks", <<>>),
         ActionLine("plain", "b", "bets", <<2, 0>>),
         ActionLine("raise", "a", "raises", <<6, 0>>),
         ActionLine("plain", "b", "folds", <<>>) >> }

Idle == [k |-> "idle"]

StreetInit ==
    /\ \E t1 \in CardTexts, t2 \in CardTexts, t3 \in CardTexts,
          lines \in StreetActionLines :
          /\ t1 # t2 /\ t1 # t3 /\ t2 # t3
          /\ inst = NewStreet(<<StreetLine(<<t1, t2, t3>>, <<>>, <<2, 3, 0>>, <<2>>)>> \o lines)
    /\ itpos = 0
    /\ cache = [p \in Props |-> Unset]
    /\ last = [prop |-> "none", got |-> Unset]
    /\ nreads = 0
    /\ hand = Idle /\ hh = Idle /\ pc = "idle" /\ trace = <<>>
    /\ err = "none" /\ call = "none" /\ snap = Idle /\ calls = 0

StreetNext == \E p \in Props : ReadProp(p)

StreetSpec == StreetInit /\ [][StreetNext]_vars

(***************************************************************************)
(* The players specification: a flop is built with any sequence of action  *)
(* lines of a few players, then its properties are read.                   *)
(***************************************************************************)
MaxActions == 3     \* a street of the players specification has at most this many actions
ActorNames == {"a", "b", "c"}

\* the action line of the i-th action of a street, made by player n
ActorLine(i, n) ==
    IF i = 1 THEN ActionLine("plain", n, "bets", <<2, 0>>)
    ELSE IF i = 2 THEN ActionLine("raise", n, "raises", <<6, 0>>)
    ELSE ActionLine("plain", n, "calls", <<6, 0>>)

\* every sequence of at most MaxActions action lines
ActorLineSeqs ==
    UNION {{[i \in 1..k |-> ActorLine(i, f[i])] : f \in [1..k -> ActorNames]} :
              k \in 0..MaxActions}

PlayersInit ==
    /\ \E lines \in ActorLineSeqs :
          inst = NewStreet(<<StreetLine(<< <<"8", "h">>, <<"4", "h">>, <<"T", "c">> >>,
                                       <<>>, <<1, 2, 0>>, <<2>>)>> \o lines)
    /\ itpos = 0
    /\ cache = [p \in Props |-> Unset]
    /\ last = [prop |-> "none", got |-> Unset]
    /\ nreads = 0
    /\ hand = Idle /\ hh = Idle /\ pc = "idle" /\ trace = <<>>
    /\ err = "none" /\ call = "none" /\ snap = Idle /\ calls = 0

PlayersSpec == PlayersInit /\ [][StreetNext]_vars

(***************************************************************************)
(* handhistory.py: _SplittableHandHistory.__init__, the section splitter.  *)
(***************************************************************************)
RECURSIVE StripLeft(_)
StripLeft(toks) ==
    IF toks # <<>> /\ Head(toks) = NL THEN StripLeft(Tail(toks)) ELSE toks

RECURSIVE StripRight(_)
StripRight(toks) ==
    IF toks # <<>> /\ toks[Len(toks)] = NL
    THEN StripRight(SubSeq(toks, 1, Len(toks) - 1)) ELSE toks

\* hand_text.strip(): leading and trailing newlines go
Strip(toks) == StripRight(StripLeft(toks))

RECURSIVE SplitFrom(_, _)
\* _split_re.split(raw) for _split_re = " ?\*\*\* ?\n?|\n": cur is the text
\* read since the last separator; a "***" takes the newline after it along
SplitFrom(toks, cur) ==
    IF toks = <<>> THEN <<cur>>
    ELSE IF Head(toks) = NL THEN <<cur>> \o SplitFrom(Tail(toks), Empty)
    ELSE IF Head(toks) = STARS
         THEN IF Len(toks) > 1 /\ toks[2] = NL
              THEN <<cur>> \o SplitFrom(Tail(Tail(toks)), Empty)
              ELSE <<cur>> \o SplitFrom(Tail(toks), Empty)
    ELSE SplitFrom(Tail(toks), Head(toks))

Split(toks) == SplitFrom(toks, Empty)

RECURSIVE EmptyIndicesOneBased(_, _)
\* the mutant of EmptyIndices that counts the fragments from one
EmptyIndicesOneBased(splitted, ind) ==
    IF ind >= Len(splitted) THEN <<>>
    ELSE (IF PyGet(splitted, ind) = Empty THEN <<ind + 1>> ELSE <<>>)
         \o EmptyIndicesOneBased(splitted, ind + 1)

RECURSIVE EmptyIndices(_, _)
\* [ind for ind, elem in enumerate(splitted) if not elem], from index ind on
EmptyIndices(splitted, ind) ==
    IF ind >= Len(splitted) THEN <<>>
    ELSE (IF PyGet(splitted, ind) = Empty THEN <<ind>> ELSE <<>>)
         \o EmptyIndices(splitted, ind + 1)

Sections(splitted) == EmptyIndices(splitted, 0)

AttrNames == {"sb", "bb", "date", "ident", "game_type", "currency",
              "tournament_ident", "table_name", "limit", "game", "buyin",
              "extra", "max_players", "players", "button", "hero",
              "preflop_actions", "flop", "turn", "river",
              "turn_actions", "river_actions", "turn_pot", "river_pot",
              "turn_num_players", "river_num_players",
              "show_down", "total_pot", "winners"}

\* _BaseHandHistory.__init__ and _SplittableHandHistory.__init__: the object
\* after construction; a holds the attributes the parser assigns later
NewHandHistory(raw) ==
    LET splitted == Split(Strip(raw))
    IN  [header_parsed |-> FALSE,
         parsed |-> FALSE,
         splitted |-> Val(splitted),
         sections |-> Sections(splitted),
         a |-> [n \in AttrNames |-> Unset]]

\* setattr(self, name, value)
SetAttr(h, name, value) == [h EXCEPT !.a[name] = value]
\* d[key] = value on a dict
DictSet(d, key, value) ==
    [x \in (DOMAIN d) \cup {key} |-> IF x = key THEN value ELSE d[x]]
\* self.extra[key] = value
SetExtra(h, key, value) ==
    [h EXCEPT !.a["extra"] = Val(DictSet(h.a["extra"].v, key, value))]

\* the outcome of a method body: the object it leaves and how it ended
Ok(h) == [err |-> "ok", hh |-> h]
Raise(e, h) == [err |-> e, hh |-> h]
NoBuffer == "AttributeError: _splitted"
NoMatch == "AttributeError: NoneType"

(***************************************************************************)
(* The splitter specification: a record is constructed from any short text *)
(* of lines, newlines and "***" separators.                                *)
(***************************************************************************)
MaxTokens == 5      \* a text of the splitter specification has at most this many tokens
SplitTokens == {NL, STARS, Txt("A"), Txt("B")}

\* the texts: token sequences in which no two line texts are adjacent
SplitTexts ==
    UNION {{t \in [1..k -> SplitTokens] :
               \A i \in 1..(k - 1) : ~(t[i].t = "text" /\ t[i + 1].t = "text")} :
              k \in 0..MaxTokens}

SplitInit ==
    /\ hand \in {[raw |-> t] : t \in SplitTexts}
    /\ hh = Idle
    /\ pc = "idle" /\ trace = <<>>
    /\ err = "none" /\ call = "none" /\ snap = Idle /\ calls = 0
    /\ inst = Idle /\ itpos = 0 /\ cache = Idle /\ last = Idle /\ nreads = 0

\* the constructor is called with the text
Construct ==
    /\ hh = Idle
    /\ hh' = NewHandHistory(hand.raw)
    /\ UNCHANGED <<hand, pc, trace, err, call, snap, calls>>
    /\ UNCHANGED streetvars

SplitNext == Construct

SplitSpec == SplitInit /\ [][SplitNext]_vars

(***************************************************************************)
(* fulltiltpoker.py: parse_header.                                         *)
(***************************************************************************)
\* Limit(text) and Game(text) of the constants module
Limit(text) ==
    CASE text \in {"NL", "No Limit"} -> "NL"
      [] text \in {"PL", "Pot Limit"} -> "PL"
      [] OTHER -> "FL"
Game(text) == IF text = "Hold'em" THEN "HOLDEM" ELSE "OMAHA"

\* the characters '0' .. '9'
DigitChars == <<"0", "1", "2", "3", "4", "5", "6", "7", "8", "9">>

\* sub in text, for two sequences of characters
Contains(text, sub) ==
    \E i \in 0..(Len(text) - Len(sub)) : SubSeq(text, i + 1, i + Len(sub)) = sub

RECURSIVE LeadingDigits(_)
\* the digits matched by \d* at the start of text
LeadingDigits(text) ==
    IF text # <<>> /\ PyIndex(DigitChars, Head(text)) # -1
    THEN <<PyIndex(DigitChars, Head(text))>> \o LeadingDigits(Tail(text))
    ELSE <<>>

\* group 'buyin' of _header_re: \$?(?P<buyin>\d*)? at the start of the
\* tournament name
BuyinGroup(tname) ==
    LeadingDigits(IF tname # <<>> /\ Head(tname) = "$" THEN Tail(tname) ELSE tname)

\* 'Sit & Go' in tournament_name
IsSitAndGo(tname) == Contains(tname, <<"S", "i", "t", " ", "&", " ", "G", "o">>)

\* the number of days of month m of year y
DaysInMonth(y, m) ==
    IF m = 2
    THEN (IF (y % 4 = 0 /\ y % 100 # 0) \/ y % 400 = 0 THEN 29 ELSE 28)
    ELSE IF m \in {4, 6, 9, 11} THEN 30 ELSE 31

\* datetime.strptime(date_string, date_format) succeeds
ValidDate(d) ==
    /\ d.year \in 1..9999 /\ d.month \in 1..12
    /\ d.day \in 1..DaysInMonth(d.year, d.month)
    /\ d.hour \in 0..23 /\ d.minute \in 0..59 /\ d.second \in 0..59

\* the day of the week of a date, 0 standing for Sunday
DayOfWeek(y, m, d) ==
    LET MonthKey == <<0, 3, 2, 5, 0, 3, 5, 1, 4, 6, 2, 4>>
        yy == IF m < 3 THEN y - 1 ELSE y
    IN  (yy + (yy \div 4) - (yy \div 100) + (yy \div 400) + MonthKey[m] + d) % 7

\* _TZ.localize(date): whether the local time is daylight time, by the
\* rules of US/Eastern.  Daylight time starts and ends at 02:00 local time:
\* from 2007 on the second Sunday of March and the first Sunday of November;
\* 1987-2006 from the first Sunday of April, 1976-1986 and 1946-1973 from the
\* last Sunday of April, in 1975 from the last Sunday of February, in 1974
\* from January 6, to the last Sunday of October (1946-1954 of September);
\* from 1942 February 9 to 1945 September 30 without a break; 1921-1941
\* from the last Sunday of April to the last Sunday of September; 1918-1920
\* from the last Sunday of March to the last Sunday of October; none before
\* 1918.  The zone data of pytz ends with the year 2037: later dates are
\* standard time.  localize takes a time that does not exist (the hour
\* skipped in spring) or exists twice (the hour repeated in autumn) as
\* standard time
IsDst(d) ==
    LET y == d.year
        FirstSunday(m) == 1 + ((7 - DayOfWeek(y, m, 1)) % 7)
        LastSunday(m) == DaysInMonth(y, m) - DayOfWeek(y, m, DaysInMonth(y, m))
        s == CASE y >= 2007 -> [month |-> 3, day |-> FirstSunday(3) + 7]
               [] y \in 1987..2006 -> [month |-> 4, day |-> FirstSunday(4)]
               [] y \in 1976..1986 -> [month |-> 4, day |-> LastSunday(4)]
               [] y = 1975 -> [month |-> 2, day |-> LastSunday(2)]
               [] y = 1974 -> [month |-> 1, day |-> 6]
               [] y \in 1946..1973 -> [month |-> 4, day |-> LastSunday(4)]
               [] y \in 1943..1945 -> [month |-> 0, day |-> 0]
               [] y = 1942 -> [month |-> 2, day |-> 9]
               [] y \in 1921..1941 -> [month |-> 4, day |-> LastSunday(4)]
               [] OTHER -> [month |-> 3, day |-> LastSunday(3)]
        e == CASE y >= 2007 -> [month |-> 11, day |-> FirstSunday(11)]
               [] y \in 1955..2006 -> [month |-> 10, day |-> LastSunday(10)]
               [] y \in 1946..1954 -> [month |-> 9, day |-> LastSunday(9)]
               [] y = 1945 -> [month |-> 9, day |-> 30]
               [] y \in 1942..1944 -> [month |-> 13, day |-> 0]
               [] y \in 1921..1941 -> [month |-> 9, day |-> LastSunday(9)]
               [] OTHER -> [month |-> 10, day |-> LastSunday(10)]
    IN  /\ y \in 1918..2037
        /\ \/ d.month > s.month
           \/ d.month = s.month /\ d.day > s.day
           \/ d.month = s.month /\ d.day = s.day /\ d.hour >= 3
        /\ \/ d.month < e.month
           \/ d.month = e.month /\ d.day < e.day
           \/ d.month = e.month /\ d.day = e.day /\ d.hour < 1

\* _parse_date: the room's local time (US/Eastern) as UTC, or the exception
\* raised: ValueError by strptime on a date that does not exist,
\* OverflowError by localize on the first and the last day datetime can hold
\* (it looks one day back and one day ahead).  The zone data pytz reads
\* starts on 1901 December 13, 20:45:52 UTC: local times before 15:45:52 of
\* that day are on local mean time, 4 hours 56 minutes behind UTC
ParseDate(d) ==
    LET lmt == \/ d.year < 1901
               \/ d.year = 1901 /\ d.month < 12
               \/ d.year = 1901 /\ d.month = 12 /\ d.day < 13
               \/ /\ d.year = 1901 /\ d.month = 12 /\ d.day = 13
                  /\ 3600 * d.hour + 60 * d.minute + d.second < 56752
        t == 60 * d.hour + d.minute
             + (IF lmt THEN 296 ELSE IF IsDst(d) THEN 240 ELSE 300)
        next == t >= 1440
        lastday == d.day = DaysInMonth(d.year, d.month)
    IN  IF ~ValidDate(d) THEN [raised |-> "ValueError"]
        ELSE IF \/ d.year = 1 /\ d.month = 1 /\ d.day = 1
                \/ d.year = 9999 /\ d.month = 12 /\ d.day = 31
             THEN [raised |-> "OverflowError"]
        ELSE [year |-> IF next /\ lastday /\ d.month = 12 THEN d.year + 1 ELSE d.year,
              month |-> IF next /\ lastday THEN (d.month % 12) + 1 ELSE d.month,
              day |-> IF next THEN (IF lastday THEN 1 ELSE d.day + 1) ELSE d.day,
              hour |-> (t % 1440) \div 60,
              minute |-> t % 60,
              second |-> d.second]

\* the attributes parse_header assigns from a matching header line
HeaderFields(line) ==
    [sb |-> Val(DigitsToNat(line.sb)),
     bb |-> Val(DigitsToNat(line.bb)),
     date |-> Val(ParseDate(line.date)),
     ident |-> Val(line.ident),
     game_type |-> Val(IF IsSitAndGo(line.tname) THEN "SNG" ELSE "TOUR"),
     currency |-> IF Contains(line.tname, <<"$">>) THEN Val("USD") ELSE None,
     tournament_ident |-> Val(line.tid),
     table_name |-> Val(line.table),
     limit |-> Val(Limit(line.limit)),
     game |-> Val(Game(line.game)),
     buyin |-> IF BuyinGroup(line.tname) # <<>>
               THEN Val(DigitsToNat(BuyinGroup(line.tname))) ELSE None,
     extra |-> Val([k \in {"tournament_name"} |-> Val(line.tname)])]

HeaderAttrs == {"sb", "bb", "date", "ident", "game_type", "currency",
                "tournament_ident", "table_name", "limit", "game", "buyin", "extra"}

\* _header_re.match(header_line) is not None; the pattern is compiled with
\* re.VERBOSE, which drops the blank written inside the alternatives
\* 'No Limit', 'Pot Limit' and 'Fix Limit' of group 'limit'
HeaderMatch(line) ==
    /\ line.t = "header"
    /\ line.limit \in {"NL", "PL", "FL", "NoLimit", "PotLimit", "FixLimit"}

\* parse_header(): reads self._splitted[0], assigns the header attributes in
\* the order of the code, replaces self.extra by a new dict and sets
\* header_parsed; an exception (Decimal('') of an empty blind, _parse_date)
\* leaves the attributes assigned before it
ParseHeaderBody(h) ==
    IF ~Truthy(h.splitted) THEN Raise(NoBuffer, h)
    ELSE LET line == PyGet(h.splitted.v, 0)
             Assigned(names) ==
                 [h EXCEPT !.a = [n \in AttrNames |->
                                    IF n \in names THEN HeaderFields(line)[n] ELSE @[n]]]
         IN  IF ~HeaderMatch(line) THEN Raise(NoMatch, h)
             ELSE IF line.sb = <<>> THEN Raise("InvalidOperation", h)
             ELSE IF line.bb = <<>> THEN Raise("InvalidOperation", Assigned({"sb"}))
             ELSE IF "raised" \in DOMAIN ParseDate(line.date)
                  THEN Raise(ParseDate(line.date).raised, Assigned({"sb", "bb"}))
             ELSE Ok([Assigned(HeaderAttrs) EXCEPT !.header_parsed = TRUE])

(***************************************************************************)
(* fulltiltpoker.py: the stages of the pipeline.                           *)
(***************************************************************************)
\* the number of seats _parse_players initialises
InitSeatCount == 9

EmptySeatNames == <<"Empty Seat 1", "Empty Seat 2", "Empty Seat 3",
                    "Empty Seat 4", "Empty Seat 5", "Empty Seat 6",
                    "Empty Seat 7", "Empty Seat 8", "Empty Seat 9">>

Player(name, stack, seat, combo) ==
    [name |-> name, stack |-> stack, seat |-> seat, combo |-> combo]

\* _init_seats(player_num)
InitSeats(player_num) ==
    [seat \in 1..player_num |-> Player(EmptySeatNames[seat], 0, seat, None)]

\* Combo(c1 + c2) of the hand module
Combo(c1, c2) == [first |-> Card(c1), second |-> Card(c2)]

RECURSIVE SeatPrefix(_)
\* the lines the loop of _parse_players visits before it breaks
SeatPrefix(lines) ==
    IF lines # <<>> /\ Head(lines).t = "seat"
    THEN <<Head(lines)>> \o SeatPrefix(Tail(lines)) ELSE <<>>

RECURSIVE SeatLoop(_, _)
\* the loop of _parse_players: players[seat - 1] = _Player(...); with seat 0
\* the index is -1, the last entry of the list
SeatLoop(players, lines) ==
    IF lines = <<>> THEN players
    ELSE LET l == Head(lines)
         IN  SeatLoop([players EXCEPT ![IF l.seat = 0 THEN Len(players) ELSE l.seat] =
                          Player(l.name, MakeInt(l.stack), l.seat, None)],
                      Tail(lines))

\* _parse_table
ParseTableBody(h) == Ok(h)

\* _parse_players; a seat line with an empty stack raises in the loop
\* (int('') in _make_int)
ParsePlayersBody(h) ==
    IF ~Truthy(h.splitted) THEN Raise(NoBuffer, h)
    ELSE LET lines == SeatPrefix(PyFrom(h.splitted.v, 1))
             players == SeatLoop(InitSeats(InitSeatCount), lines)
         IN  IF \E i \in 1..Len(lines) : Concat(lines[i].stack) = <<>>
             THEN Raise("ValueError", h)
             ELSE IF lines = <<>> THEN Raise("UnboundLocalError", h)
             ELSE LET seat == lines[Len(lines)].seat
                  IN  Ok(SetAttr(SetAttr(h, "max_players", Val(seat)),
                                 "players", Val(SubSeq(players, 1, seat))))

\* _parse_button
ParseButtonBody(h) ==
    IF ~Truthy(h.splitted) THEN Raise(NoBuffer, h)
    ELSE IF h.sections = <<>> THEN Raise("IndexError", h)
    ELSE LET idx == h.sections[1] - 1
         IN  IF ~HasIndex(h.splitted.v, idx) THEN Raise("IndexError", h)
             ELSE LET line == PyGet(h.splitted.v, idx)
                  IN  IF line.t # "button" THEN Raise(NoMatch, h)
                      ELSE IF ~HasIndex(h.a["players"].v, line.seat - 1)
                           THEN Raise("IndexError", h)
                      ELSE Ok(SetAttr(h, "button",
                                      Val(PyGet(h.a["players"].v, line.seat - 1))))

\* _get_hero_from_players: player_names.index(hero_name), -1 for ValueError
HeroIndex(players, hero_name) ==
    PyIndex([i \in 1..Len(players) |-> players[i].name], hero_name)

\* the mutant of Rebutton that leaves the button as the button stage set it
RebuttonNever(button, hero) == button

\* the last statement of _parse_hero:
\* if self.button.name == self.hero.name: self.button = self.hero
Rebutton(button, hero) == IF button.name = hero.name THEN hero ELSE button

\* _parse_hero
ParseHeroBody(h) ==
    IF ~Truthy(h.splitted) THEN Raise(NoBuffer, h)
    ELSE LET idx == h.sections[1] + 2
         IN  IF ~HasIndex(h.splitted.v, idx) THEN Raise("IndexError", h)
             ELSE LET line == PyGet(h.splitted.v, idx)
                  IN  IF line.t # "dealt" THEN Raise(NoMatch, h)
                      ELSE LET players == h.a["players"].v
                               hero_index == HeroIndex(players, line.name)
                           IN  IF hero_index = -1 THEN Raise("ValueError", h)
                               ELSE LET hero == [PyGet(players, hero_index) EXCEPT
                                                   !.combo = Val(Combo(line.c1, line.c2))]
                                        h1 == SetAttr(h, "hero", Val(hero))
                                        h2 == SetAttr(h1, "players",
                                                 Val([players EXCEPT ![hero_index + 1] = hero]))
                                    IN  Ok(SetAttr(h2, "button",
                                              Val(Rebutton(h.a["button"].v, hero))))

\* _parse_preflop
ParsePreflopBody(h) ==
    IF ~Truthy(h.splitted) THEN Raise(NoBuffer, h)
    ELSE IF Len(h.sections) < 2 THEN Raise("IndexError", h)
    ELSE Ok(SetAttr(h, "preflop_actions",
                    Val(PySlice(h.splitted.v, h.sections[1] + 3, h.sections[2]))))

\* next(v for v in self._sections if v > start), -1 standing for StopIteration
NextSection(sections, start) ==
    LET later == {i \in 1..Len(sections) : sections[i] > start}
    IN  IF later = {} THEN -1
        ELSE sections[CHOOSE i \in later : \A j \in later : i <= j]

\* the mutant of ParseFlopBody that lets the ValueError of a missing FLOP
\* marker out
ParseFlopBodyStrict(h) ==
    IF ~Truthy(h.splitted) THEN Raise(NoBuffer, h)
    ELSE LET start == PyIndex(h.splitted.v, Txt("FLOP"))
             stop == NextSection(h.sections, start)
         IN  IF start = -1 THEN Raise("ValueError", h)
             ELSE IF stop = -1 THEN Raise("StopIteration", h)
             ELSE LET flop == NewStreet(PySlice(h.splitted.v, start + 1, stop))
                  IN  IF "raised" \in DOMAIN flop THEN Raise(flop.raised, h)
                      ELSE Ok(SetAttr(h, "flop", Val(flop)))

\* _parse_flop
ParseFlopBody(h) ==
    IF ~Truthy(h.splitted) THEN Raise(NoBuffer, h)
    ELSE LET start == PyIndex(h.splitted.v, Txt("FLOP"))
             stop == NextSection(h.sections, start)
         IN  IF start = -1 THEN Ok(SetAttr(h, "flop", None))
             ELSE IF stop = -1 THEN Raise("StopIteration", h)
             ELSE LET floplines == PySlice(h.splitted.v, start + 1, stop)
                  IN  IF floplines = <<>> THEN Raise("IndexError", h)
                      ELSE IF floplines[1].t # "streetline" THEN Raise("ValueError", h)
                      ELSE LET flop == NewStreet(floplines)
                           IN  IF "raised" \in DOMAIN flop THEN Raise(flop.raised, h)
                               ELSE Ok(SetAttr(h, "flop", Val(flop)))

Upper(street) == IF street = "turn" THEN "TURN" ELSE "RIVER"
ActionsKey(street) == IF street = "turn" THEN "turn_actions" ELSE "river_actions"
PotKey(street) == IF street = "turn" THEN "turn_pot" ELSE "river_pot"
NumPlayersKey(street) ==
    IF street = "turn" THEN "turn_num_players" ELSE "river_num_players"

\* _parse_streetline(start, street): pot and number of players into extra;
\* Decimal('') of an empty pot raises before anything is written
ParseStreetline(h, start, street) ==
    IF ~HasIndex(h.splitted.v, start) THEN Raise("IndexError", h)
    ELSE LET board_line == PyGet(h.splitted.v, start)
         IN  IF board_line.t # "streetline" THEN Raise(NoMatch, h)
             ELSE IF board_line.pot = <<>> THEN Raise("InvalidOperation", h)
             ELSE Ok(SetExtra(SetExtra(h, PotKey(street),
                                       Val(DigitsToNat(board_line.pot))),
                              NumPlayersKey(street),
                              Val(DigitsToNat(board_line.nplayers))))

\* the mutant of StreetAbsent that forgets the street's card
StreetAbsentKeepsCard(h, street) ==
    SetAttr(SetAttr(SetAttr(h, ActionsKey(street), None),
                    PotKey(street), None),
            NumPlayersKey(street), None)

\* the except ValueError branch of _parse_street
StreetAbsent(h, street) ==
    SetAttr(SetAttr(SetAttr(SetAttr(h, street, None),
                            ActionsKey(street), None),
                    PotKey(street), None),
            NumPlayersKey(street), None)

\* _parse_street(street)
ParseStreetBody(h, street) ==
    IF ~Truthy(h.splitted) THEN Raise(NoBuffer, h)
    ELSE LET found == PyIndex(h.splitted.v, Txt(Upper(street)))
             start == found + 1
         IN  IF found = -1 THEN Ok(StreetAbsent(h, street))
             ELSE LET r == ParseStreetline(h, start, street)
                      stop == NextSection(h.sections, start)
                  IN  IF r.err # "ok" THEN r
                      ELSE IF stop = -1 THEN Raise("StopIteration", r.hh)
                      ELSE LET street_actions == PySlice(h.splitted.v, start + 1, stop)
                           IN  Ok(SetAttr(r.hh, ActionsKey(street),
                                     IF street_actions # <<>>
                                     THEN Val(street_actions) ELSE None))

\* _parse_showdown
ParseShowdownBody(h) ==
    IF ~Truthy(h.splitted) THEN Raise(NoBuffer, h)
    ELSE Ok(SetAttr(h, "show_down",
               Val(\E i \in 1..Len(h.splitted.v) : h.splitted.v[i] = Txt("SHOW DOWN"))))

\* self._sections[-1]
LastSection(h) == h.sections[Len(h.sections)]

\* _parse_pot; int('') of an empty amount raises ValueError
ParsePotBody(h) ==
    IF ~Truthy(h.splitted) THEN Raise(NoBuffer, h)
    ELSE IF ~HasIndex(h.splitted.v, LastSection(h) + 2) THEN Raise("IndexError", h)
    ELSE LET potline == PyGet(h.splitted.v, LastSection(h) + 2)
         IN  IF potline.t # "pot" THEN Raise(NoMatch, h)
             ELSE IF Concat(potline.pot) = <<>> THEN Raise("ValueError", h)
             ELSE Ok(SetAttr(h, "total_pot", Val(MakeInt(potline.pot))))

\* _parse_board
ParseBoardBody(h) ==
    IF ~Truthy(h.splitted) THEN Raise(NoBuffer, h)
    ELSE IF ~HasIndex(h.splitted.v, LastSection(h) + 3) THEN Raise("IndexError", h)
    ELSE LET boardline == PyGet(h.splitted.v, LastSection(h) + 3)
         IN  IF boardline.t # "board" THEN Ok(h)
             ELSE LET cards == boardline.cards
                  IN  Ok(SetAttr(SetAttr(h, "turn",
                                    IF Len(cards) > 3 THEN Val(Card(cards[4])) ELSE None),
                                 "river",
                                 IF Len(cards) > 4 THEN Val(Card(cards[5])) ELSE None))

\* _parse_winners; tuple(winners) lists the set in an arbitrary order, so the
\* attribute is kept as the set of names
ParseWinnersBody(h) ==
    IF ~Truthy(h.splitted) THEN Raise(NoBuffer, h)
    ELSE LET lines == PyFrom(h.splitted.v, LastSection(h) + 4)
             show_down == h.a["show_down"].v
             collected == {i \in 1..Len(lines) :
                             lines[i].t = "sumseat" /\ lines[i].kind = "collected"}
             won == {i \in 1..Len(lines) :
                       lines[i].t = "sumseat" /\ lines[i].kind = "showed_won"}
         IN  IF ~show_down
             THEN Ok(SetAttr(h, "winners", Val({lines[i].name : i \in collected})))
             ELSE IF won # {}
                  \* _showdown_re has no group called name
                  THEN Raise("IndexError", h)
                  ELSE Ok(SetAttr(h, "winners", Val({})))

\* one round of the loop of _parse_extra
ExtraOf(h, street) ==
    LET found == PyIndex(h.splitted.v, Txt(Upper(street)))
    IN  IF found = -1
        THEN Ok(SetExtra(SetExtra(h, PotKey(street), None), NumPlayersKey(street), None))
        ELSE ParseStreetline(h, found + 1, street)

\* _parse_extra
ParseExtraBody(h) ==
    IF ~Truthy(h.splitted) THEN Raise(NoBuffer, h)
    ELSE LET r == ExtraOf(h, "turn")
         IN  IF r.err # "ok" THEN r ELSE ExtraOf(r.hh, "river")

\* the mutant of FinishBody that keeps the split buffer
FinishKeepsBuffer(h) == Ok([h EXCEPT !.parsed = TRUE])

\* the end of parse(): del self._splitted; self.parsed = True
FinishBody(h) ==
    IF ~Truthy(h.splitted) THEN Raise(NoBuffer, h)
    ELSE Ok([h EXCEPT !.splitted = Unset, !.parsed = TRUE])

\* the mutant of Board that appends the river whether or not there is a turn
BoardWithGaps(h) ==
    LET flop == h.a["flop"]
        turn == h.a["turn"]
        river == h.a["river"]
        board == flop.v.cards
                 \o (IF Truthy(turn) THEN <<turn.v>> ELSE <<>>)
                 \o (IF Truthy(river) THEN <<river.v>> ELSE <<>>)
    IN  IF flop = Unset THEN [raised |-> "AttributeError"]
        ELSE IF ~Truthy(flop) THEN None
        ELSE IF turn = Unset \/ river = Unset THEN [raised |-> "AttributeError"]
        ELSE IF board # <<>> THEN Val(board) ELSE None

\* the board property; reading an attribute that was never assigned raises
\* AttributeError, and turn is read only with a flop, river only with a turn
Board(h) ==
    LET flop == h.a["flop"]
        turn == h.a["turn"]
        river == h.a["river"]
        Tuple(board) == IF board # <<>> THEN Val(board) ELSE None
    IN  IF flop = Unset THEN [raised |-> "AttributeError"]
        ELSE IF ~Truthy(flop) THEN None
        ELSE IF turn = Unset THEN [raised |-> "AttributeError"]
        ELSE IF ~Truthy(turn) THEN Tuple(flop.v.cards)
        ELSE IF river = Unset THEN [raised |-> "AttributeError"]
        ELSE IF ~Truthy(river) THEN Tuple(flop.v.cards \o <<turn.v>>)
        ELSE Tuple(flop.v.cards \o <<turn.v, river.v>>)

(***************************************************************************)
(* The board specification: a record holds any combination of flop, turn   *)
(* and river values, and its board property is read.                       *)
(***************************************************************************)
\* the flop values of a record: None or a street
BoardFlops ==
    {None}
    \cup {Val(NewStreet(<<StreetLine(cards, <<>>, <<1, 2, 0>>, <<2>>)>>)) :
             cards \in { << <<"8", "h">>, <<"4", "h">>, <<"T", "c">> >>,
                         << <<"A", "s">>, <<"A", "d">>, <<"2", "c">> >> }}
\* the turn and river values of a record: None or a card
BoardCardValues ==
    {None}
    \cup {Val(Card(t)) : t \in { <<"K", "d">>, <<"2", "s">>, <<"9", "c">>,
                                 <<"J", "h">>, <<"5", "d">> }}

BoardInit ==
    /\ \E flop \in BoardFlops, turn \in BoardCardValues, river \in BoardCardValues :
          hh = SetAttr(SetAttr(SetAttr(NewHandHistory(<<>>), "flop", flop),
                               "turn", turn), "river", river)
    /\ hand = Idle /\ pc = "idle" /\ trace = <<>>
    /\ err = "none" /\ call = "none" /\ snap = Idle /\ calls = 0
    /\ inst = Idle /\ itpos = 0 /\ cache = Idle /\ nreads = 0
    /\ last = [prop |-> "none", got |-> Unset]

\* reading the board property of the record
ReadBoard ==
    /\ last' = [prop |-> "board", got |-> Board(hh)]
    /\ UNCHANGED <<hand, hh, pc, trace, err, call, snap, calls>>
    /\ UNCHANGED <<inst, itpos, cache, nreads>>

BoardNext == ReadBoard

BoardSpec == BoardInit /\ [][BoardNext]_vars

(***************************************************************************)
(* The hands: a hand descriptor says what the room wrote, Raw is the text. *)
(***************************************************************************)
Names == {"a", "b"}

\* a first line of the shape "Full Tilt Poker Game #<ident>: <tname> (<tid>),
\* Table <table> - <limit> <game> - <sb>/<bb> - ... [<date>]"; tname is the
\* sequence of its characters, sb and bb are digit sequences, limit is the
\* text written where the pattern expects the limit
HeaderLine(ident, tname, tid, table, limit, game, sb, bb, date) ==
    [t |-> "header", ident |-> ident, tname |-> tname, tid |-> tid,
     table |-> table, limit |-> limit, game |-> game, sb |-> sb, bb |-> bb,
     date |-> date]

\* "MiniFTOPS Main Event"
MainEventName == <<"M", "i", "n", "i", "F", "T", "O", "P", "S", " ",
                   "M", "a", "i", "n", " ", "E", "v", "e", "n", "t">>
\* "$5 Turbo Sit & Go"
TurboName == <<"$", "5", " ", "T", "u", "r", "b", "o", " ",
               "S", "i", "t", " ", "&", " ", "G", "o">>

\* the date "13:26:50 ET - year/month/day"
DateOn(year, month, day) ==
    [year |-> year, month |-> month, day |-> day,
     hour |-> 13, minute |-> 26, second |-> 50]

\* "Full Tilt Poker Game #33286946295: $10 Sit & Go (255707037), Table 179 -
\*  NL Hold'em - 10/20 - ... [13:26:50 ET - 2013/09/22]"
Header1 ==
    HeaderLine("33286946295",
               <<"$", "1", "0", " ", "S", "i", "t", " ", "&", " ", "G", "o">>,
               "255707037", "179", "NL", "Hold'em", <<1, 0>>, <<2, 0>>,
               DateOn(2013, 9, 22))
\* the first lines of the hands: Header1 and
\*  "... MiniFTOPS Main Event (255707038), Table 3 - No Limit Hold'em -
\*   150/300 - ... [22:05:10 ET - 2014/01/27]", the limit written in full;
\*  a first line of another room;
\*  the same tournament with the limit written NL, at 22:05:10 ET of
\*   2014/01/31: the UTC time is on the next day;
\*  "... $5 Turbo Sit & Go (255707039), Table 7 - PL Omaha - 10/20 - ..." on
\*   2013/02/30, a date that does not exist;
\*  "... - FL Hold'em - /20 - ..." and "... - FL Hold'em - 10/ - ...", a blind
\*   missing;
\*  "... - FL Hold'em - 10/20 - ... [01:30:00 ET - 2013/11/03]", the hour that
\*   exists twice;
\*  dates on the last day datetime holds, before the zone data starts,
\*  and after the zone data of pytz ends
HeaderLines ==
    {Header1,
     HeaderLine("33286946296", MainEventName,
                "255707038", "3", "No Limit", "Hold'em", <<1, 5, 0>>, <<3, 0, 0>>,
                [year |-> 2014, month |-> 1, day |-> 27,
                 hour |-> 22, minute |-> 5, second |-> 10]),
     Txt("PokerStars Hand #1"),
     HeaderLine("33286946296", MainEventName,
                "255707038", "3", "NL", "Hold'em", <<1, 5, 0>>, <<3, 0, 0>>,
                [year |-> 2014, month |-> 1, day |-> 31,
                 hour |-> 22, minute |-> 5, second |-> 10]),
     HeaderLine("33286946297", TurboName,
                "255707039", "7", "PL", "Omaha", <<1, 0>>, <<2, 0>>,
                DateOn(2013, 2, 30)),
     HeaderLine("33286946298", TurboName,
                "255707039", "7", "FL", "Hold'em", <<>>, <<2, 0>>,
                DateOn(2013, 11, 3)),
     HeaderLine("33286946298", TurboName,
                "255707039", "7", "FL", "Hold'em", <<1, 0>>, <<>>,
                DateOn(2013, 11, 3)),
     HeaderLine("33286946298", TurboName,
                "255707039", "7", "FL", "Hold'em", <<1, 0>>, <<2, 0>>,
                [year |-> 2013, month |-> 11, day |-> 3,
                 hour |-> 1, minute |-> 30, second |-> 0])}
    \cup {HeaderLine("33286946299", TurboName,
                     "255707039", "7", "NL", "Hold'em", <<1, 0>>, <<2, 0>>, d) :
             d \in {DateOn(9999, 12, 31), DateOn(1901, 12, 13), DateOn(2040, 7, 1)}}

StackText(seat) ==
    IF seat = 1 THEN << <<1>>, <<5, 0, 0>> >> ELSE << <<9, 8, seat>> >>

SeatLinesOf(n) ==
    {[i \in 1..n |-> SeatLine(f[i][1], f[i][2], StackText(f[i][1]))] :
        f \in [1..n -> (1..MaxSeat) \X Names]}

\* every sequence of at most MaxSeatLines seat lines, in any order of seats
SeatLineSeqs == UNION {SeatLinesOf(n) : n \in 0..MaxSeatLines}

FlopCards == << <<"8", "h">>, <<"4", "h">>, <<"T", "c">> >>
TurnCard == <<"K", "d">>
RiverCard == <<"2", "s">>

\* the name on the summary line that collects the pot
WinnerName(h) ==
    IF h.seats = <<>> THEN "a" ELSE h.seats[Min(h.winner, Len(h.seats))].name

\* the lines that end the last street of a hand without show down
Closing(h) ==
    << ActionLine("uncalled", WinnerName(h), "", <<4, 0>>),
       ActionLine("muck", WinnerName(h), "mucks", <<>>),
       ActionLine("win", WinnerName(h), "",
                  IF h.blank = "win" THEN <<>> ELSE <<2, 3, 0>>) >>

\* the lines of street k (0 is preflop), each a sequence of tokens
StreetBlock(h, k) ==
    (CASE k = 0 -> << <<STARS, Txt("HOLE CARDS"), STARS>>,
                      <<DealtLine(h.heroName, <<"A", "h">>, <<"9", "d">>)>>,
                      <<ActionLine("raise", WinnerName(h), "raises", <<6, 0>>)>>,
                      <<ActionLine("plain", "b", "calls", <<6, 0>>)>> >>
       [] k = 1 -> << <<STARS, Txt("FLOP"), STARS,
                        StreetLine(FlopCards, <<>>, <<1, 2, 0>>, <<2>>)>>,
                      <<ActionLine("plain", "b", "checks", <<>>)>>,
                      <<ActionLine("think", WinnerName(h), "", <<>>)>>,
                      <<ActionLine("plain", WinnerName(h), "bets", <<4, 0>>)>> >>
       [] k = 2 -> << <<STARS, Txt("TURN"), STARS,
                        StreetLine(FlopCards, <<TurnCard>>,
                                   IF h.blank = "streetpot" THEN <<>> ELSE <<2, 0, 0>>,
                                   <<2>>)>>,
                      <<ActionLine("plain", "b", "checks", <<>>)>> >>
       [] k = 3 -> << <<STARS, Txt("RIVER"), STARS,
                        StreetLine(FlopCards \o <<TurnCard>>, <<RiverCard>>,
                                   <<2, 3, 0>>, <<2>>)>> >>)
    \o (IF k = h.streets /\ ~h.showdown
        THEN [i \in 1..3 |-> <<Closing(h)[i]>>] ELSE <<>>)

RECURSIVE StreetBlocks(_, _)
StreetBlocks(h, k) ==
    IF k > h.streets THEN <<>> ELSE StreetBlock(h, k) \o StreetBlocks(h, k + 1)

ShowdownBlock(h) ==
    IF h.showdown
    THEN << <<STARS, Txt("SHOW DOWN"), STARS>>,
            <<Txt("shows")>>,
            <<ActionLine("win", WinnerName(h), "", <<2, 3, 0>>)>> >>
    ELSE <<>>

BoardCards(h) ==
    FlopCards \o (IF h.streets >= 2 THEN <<TurnCard>> ELSE <<>>)
              \o (IF h.streets >= 3 THEN <<RiverCard>> ELSE <<>>)

SummaryBlock(h) ==
    << <<STARS, Txt("SUMMARY"), STARS>>,
       <<IF h.potOK
         THEN PotLine(IF h.blank = "totalpot" THEN <<>> ELSE << <<1>>, <<2, 3, 0>> >>,
                      <<0>>)
         ELSE Txt("Total pot")>> >>
    \o (IF h.streets >= 1 THEN << <<BoardLine(BoardCards(h))>> >> ELSE <<>>)
    \o [i \in 1..Len(h.seats) |->
          <<SummaryLine(h.seats[i].seat, h.seats[i].name,
               IF i = Min(h.winner, Len(h.seats))
               THEN (IF h.showdown THEN "showed_won" ELSE "collected")
               ELSE "folded",
               <<2, 3, 0>>)>>]

RECURSIVE JoinLines(_)
\* the lines joined by newlines
JoinLines(lines) ==
    IF lines = <<>> THEN <<>>
    ELSE IF Len(lines) = 1 THEN lines[1]
    ELSE lines[1] \o <<NL>> \o JoinLines(Tail(lines))

\* the raw text of a hand as the room writes it
Raw(h) ==
    JoinLines(<< <<h.hdr>> >>
              \o [i \in 1..Len(h.seats) |-> <<h.seats[i]>>]
              \o << <<Txt("posts the blinds")>>, <<ButtonLine(h.button)>> >>
              \o StreetBlocks(h, 0)
              \o ShowdownBlock(h)
              \o SummaryBlock(h))

\* the reference hand: two players, the turn dealt, no show down, no amount
\* left blank
RefHand ==
    [blank |-> "none",
     hdr |-> Header1,
     seats |-> <<SeatLine(1, "a", StackText(1)), SeatLine(2, "b", StackText(2))>>,
     button |-> 2, heroName |-> "a",
     streets |-> 2, showdown |-> FALSE, potOK |-> TRUE, winner |-> 1]

\* the hands of the model: the reference hand with its header, or its
\* players (seat lines, button, hero), or its streets and summary varied, or
\* with an amount left blank (the pot won on the last street, the pot of the
\* turn line, the total pot, a stack), or with a seat 0
Hands ==
    {[RefHand EXCEPT !.hdr = x] : x \in HeaderLines}
    \cup {[RefHand EXCEPT !.seats = s, !.button = b, !.heroName = n] :
             s \in SeatLineSeqs, b \in 1..MaxSeat, n \in Names}
    \cup {[RefHand EXCEPT !.streets = k, !.showdown = sd, !.potOK = ok, !.winner = w] :
             k \in 0..3, sd \in {FALSE}, ok \in BOOLEAN, w \in 1..2}
    \cup {[RefHand EXCEPT !.streets = 3, !.showdown = TRUE, !.potOK = ok, !.winner = w] :
             ok \in BOOLEAN, w \in 1..2}
    \cup {[RefHand EXCEPT !.blank = x, !.streets = k] :
             x \in {"win", "streetpot", "totalpot"}, k \in 1..2}
    \cup {[RefHand EXCEPT !.seats = s] :
             s \in {<<SeatLine(1, "a", <<>>), SeatLine(2, "b", StackText(2))>>,
                    <<SeatLine(0, "a", StackText(1))>>,
                    <<SeatLine(0, "b", StackText(2)), SeatLine(2, "a", StackText(1))>>}}

(***************************************************************************)
(* handhistory.py: parse(), one step per stage; parse_header() called on   *)
(* its own is one step.                                                    *)
(***************************************************************************)
StageOrder == <<"table", "players", "button", "hero", "preflop", "flop", "turn",
                "river", "showdown", "pot", "board", "winners", "extra">>

Init ==
    /\ hand \in Hands
    /\ hh = NewHandHistory(Raw(hand))
    /\ pc = "idle"
    /\ trace = <<>>
    /\ err = "none"
    /\ call = "none"
    /\ snap = hh
    /\ calls = 0
    /\ inst = Idle /\ itpos = 0 /\ cache = Idle /\ last = Idle /\ nreads = 0

\* the mutant of CallParse that parses the header whatever the flag says
CallParseAlwaysHeader ==
    /\ pc = "idle"
    /\ calls < MaxCalls
    /\ calls' = calls + 1
    /\ call' = "parse"
    /\ snap' = hh
    /\ trace' = <<>>
    /\ err' = "running"
    /\ pc' = "header"
    /\ UNCHANGED <<hand, hh>>
    /\ UNCHANGED streetvars

\* the mutant of CallParse that never parses the header
CallParseNeverHeader ==
    /\ pc = "idle"
    /\ calls < MaxCalls
    /\ calls' = calls + 1
    /\ call' = "parse"
    /\ snap' = hh
    /\ trace' = <<>>
    /\ err' = "running"
    /\ pc' = "table"
    /\ UNCHANGED <<hand, hh>>
    /\ UNCHANGED streetvars

\* a caller calls parse(): the first statement tests header_parsed
CallParse ==
    /\ pc = "idle"
    /\ calls < MaxCalls
    /\ calls' = calls + 1
    /\ call' = "parse"
    /\ snap' = hh
    /\ trace' = <<>>
    /\ err' = "running"
    /\ pc' = IF hh.header_parsed THEN "table" ELSE "header"
    /\ UNCHANGED <<hand, hh>>
    /\ UNCHANGED streetvars

\* a caller calls parse_header() directly
CallParseHeader ==
    /\ pc = "idle"
    /\ calls < MaxCalls
    /\ calls' = calls + 1
    /\ call' = "parse_header"
    /\ snap' = hh
    /\ trace' = <<"header">>
    /\ LET r == ParseHeaderBody(hh)
       IN  hh' = r.hh /\ err' = r.err
    /\ pc' = "idle"
    /\ UNCHANGED hand
    /\ UNCHANGED streetvars

\* the mutant of Step that goes on to the next statement after an exception
StepSwallows(name, r, nxt) ==
    /\ pc = name
    /\ trace' = Append(trace, name)
    /\ hh' = r.hh
    /\ pc' = nxt
    /\ err' = IF r.err = "ok" THEN "running" ELSE r.err
    /\ UNCHANGED <<hand, call, snap, calls>>
    /\ UNCHANGED streetvars

\* the mutant of Step that releases the split buffer when a stage fails
StepReleasesOnFailure(name, r, nxt) ==
    /\ pc = name
    /\ trace' = Append(trace, name)
    /\ IF r.err = "ok"
       THEN hh' = r.hh /\ pc' = nxt /\ err' = "running"
       ELSE hh' = [r.hh EXCEPT !.splitted = Unset] /\ pc' = "idle" /\ err' = r.err
    /\ UNCHANGED <<hand, call, snap, calls>>
    /\ UNCHANGED streetvars

\* one statement of parse(): the method named by the pc runs to its end;
\* an exception leaves parse(), a return moves on to the next statement
Step(name, r, nxt) ==
    /\ pc = name
    /\ trace' = Append(trace, name)
    /\ hh' = r.hh
    /\ IF r.err = "ok"
       THEN pc' = nxt /\ err' = "running"
       ELSE pc' = "idle" /\ err' = r.err
    /\ UNCHANGED <<hand, call, snap, calls>>
    /\ UNCHANGED streetvars

StepHeader == Step("header", ParseHeaderBody(hh), "table")
StepTable == Step("table", ParseTableBody(hh), "players")
StepPlayers == Step("players", ParsePlayersBody(hh), "button")
StepButton == Step("button", ParseButtonBody(hh), "hero")
StepHero == Step("hero", ParseHeroBody(hh), "preflop")
StepPreflop == Step("preflop", ParsePreflopBody(hh), "flop")
\* the mutant of StepFlop that goes on with the river
StepFlopThenRiver == Step("flop", ParseFlopBody(hh), "river")
StepFlop == Step("flop", ParseFlopBody(hh), "turn")
StepTurn == Step("turn", ParseStreetBody(hh, "turn"), "river")
StepRiver == Step("river", ParseStreetBody(hh, "river"), "showdown")
StepShowdown == Step("showdown", ParseShowdownBody(hh), "pot")
StepPot == Step("pot", ParsePotBody(hh), "board")
StepBoard == Step("board", ParseBoardBody(hh), "winners")
StepWinners == Step("winners", ParseWinnersBody(hh), "extra")
StepExtra == Step("extra", ParseExtraBody(hh), "finish")

\* the last two statements of parse()
Finish ==
    /\ pc = "finish"
    /\ LET r == FinishBody(hh)
       IN  hh' = r.hh /\ err' = r.err
    /\ pc' = "idle"
    /\ UNCHANGED <<hand, trace, call, snap, calls>>
    /\ UNCHANGED streetvars

Next ==
    \/ CallParse
    \/ CallParseHeader
    \/ StepHeader
    \/ StepTable
    \/ StepPlayers
    \/ StepButton
    \/ StepHero
    \/ StepPreflop
    \/ StepFlop
    \/ StepTurn
    \/ StepRiver
    \/ StepShowdown
    \/ StepPot
    \/ StepBoard
    \/ StepWinners
    \/ StepExtra
    \/ Finish

Spec == Init /\ [][Next]_vars

(***************************************************************************)
(* Properties of the pipeline, checked under Spec.                         *)
(***************************************************************************)
IsPrefix(s, t) == Len(s) <= Len(t) /\ \A i \in 1..Len(s) : s[i] = t[i]

\* the stages the current call has started, without the header step
StagesRun ==
    IF trace # <<>> /\ trace[1] = "header" THEN Tail(trace) ELSE trace

\* the current call is a parse() that set the parsed flag
ParseCompleted == call = "parse" /\ ~snap.parsed /\ hh.parsed

\* C1: in every parse() call the stages run in the order table, players,
\* button, hero, preflop, flop, turn, river, showdown, pot, board, winners,
\* extra, none skipped or repeated, the running stage is the one after the
\* stages started so far, and the parsed flag is set only when all thirteen
\* have run.
C1_StagesInOrder ==
    call = "parse" =>
        /\ IsPrefix(StagesRun, StageOrder)
        /\ (pc \notin {"idle", "header", "finish"} =>
                Len(StagesRun) < Len(StageOrder) /\ pc = StageOrder[Len(StagesRun) + 1])
        /\ (pc = "finish" => StagesRun = StageOrder /\ ~hh.parsed)
        /\ (ParseCompleted => StagesRun = StageOrder /\ pc = "idle")

C1_Witness == ParseCompleted /\ StagesRun = StageOrder /\ pc = "idle"

\* C4: a parse() call on a record that is already parsed changes nothing:
\* during and after the call every attribute of the record is what it was
\* when the call started, parsed stays true, and the call ends with an error.
C4_SecondParseRejected ==
    (call = "parse" /\ snap.parsed) =>
        /\ hh = snap
        /\ hh.parsed
        /\ (pc = "idle" => err = NoBuffer)

C4_Witness == call = "parse" /\ snap.parsed /\ pc = "idle" /\ err = NoBuffer

\* C5: a parse() call on a record whose header_parsed flag is false runs
\* parse_header first and exactly once: once the call has passed its first
\* step, the header step is the first of its steps and no other.
C5_HeaderFirstOnce ==
    (call = "parse" /\ ~snap.header_parsed /\ pc # "header") =>
        /\ trace # <<>>
        /\ trace[1] = "header"
        /\ \A i \in 2..Len(trace) : trace[i] # "header"

C5_Witness ==
    /\ call = "parse" /\ ~snap.header_parsed
    /\ Len(trace) >= 2 /\ trace[1] = "header" /\ trace[2] = "table"

\* the header attributes a single parse() of a fresh record of the hand
\* leaves, written out for the first lines of the model that parse_header
\* accepts: "$10 Sit & Go" (13:26:50 ET of 2013/09/22), "MiniFTOPS Main
\* Event" (22:05:10 ET of 2014/01/31), "$5 Turbo Sit & Go" at 01:30:00 ET of
\* 2013/11/03 and at 13:26:50 ET of 1901/12/13 and of 2040/07/01
SingleParseHeader ==
    LET Attrs(sb, bb, date, game_type, currency, tid, table, limit, buyin, tname) ==
            [sb |-> Val(sb), bb |-> Val(bb),
             date |-> Val([year |-> date[1], month |-> date[2], day |-> date[3],
                           hour |-> date[4], minute |-> date[5], second |-> date[6]]),
             ident |-> Val(hand.hdr.ident), game_type |-> Val(game_type),
             currency |-> currency, tournament_ident |-> Val(tid),
             table_name |-> Val(table), limit |-> Val(limit),
             game |-> Val("HOLDEM"), buyin |-> buyin, tournament_name |-> Val(tname)]
    IN  CASE hand.hdr.ident = "33286946295" ->
                Attrs(10, 20, <<2013, 9, 22, 17, 26, 50>>, "SNG", Val("USD"),
                      "255707037", "179", "NL", Val(10),
                      <<"$", "1", "0", " ", "S", "i", "t", " ", "&", " ", "G", "o">>)
          [] hand.hdr.ident = "33286946296" ->
                Attrs(150, 300, <<2014, 2, 1, 3, 5, 10>>, "TOUR", None,
                      "255707038", "3", "NL", None, MainEventName)
          [] hand.hdr.ident = "33286946298" ->
                Attrs(10, 20, <<2013, 11, 3, 6, 30, 0>>, "SNG", Val("USD"),
                      "255707039", "7", "FL", Val(5), TurboName)
          [] hand.hdr.ident = "33286946299" /\ hand.hdr.date.year = 1901 ->
                Attrs(10, 20, <<1901, 12, 13, 18, 22, 50>>, "SNG", Val("USD"),
                      "255707039", "7", "NL", Val(5), TurboName)
          [] hand.hdr.ident = "33286946299" /\ hand.hdr.date.year = 2040 ->
                Attrs(10, 20, <<2040, 7, 1, 18, 26, 50>>, "SNG", Val("USD"),
                      "255707039", "7", "NL", Val(5), TurboName)

\* C6: a parse() call on a record whose header was already parsed does not
\* run parse_header, and during and after the call the header attributes
\* (extra['tournament_name'] among them) are what they were before the call
\* and what a single parse() of a fresh record leaves.
C6_HeaderNotReparsed ==
    (call = "parse" /\ snap.header_parsed) =>
        /\ \A i \in 1..Len(trace) : trace[i] # "header"
        /\ \A n \in HeaderAttrs \ {"extra"} :
              hh.a[n] = snap.a[n] /\ hh.a[n] = SingleParseHeader[n]
        /\ hh.a["extra"].v["tournament_name"] = snap.a["extra"].v["tournament_name"]
        /\ hh.a["extra"].v["tournament_name"] = SingleParseHeader.tournament_name

C6_Witness ==
    /\ call = "parse" /\ snap.header_parsed /\ ~snap.parsed /\ hh.parsed
    /\ hh.a["sb"] = Val(10) /\ hh.a["bb"] = Val(20)
    /\ hh.a["date"].v.hour = 17 /\ hh.a["game_type"] = Val("SNG")

\* C7 (as claimed): a parse_header() call on a record whose header was
\* already parsed leaves every attribute of the record as it was.
C7_HeaderReparseKeepsState ==
    (call = "parse_header" /\ snap.header_parsed) => hh = snap

\* the hero stage of the current parse() call has returned
HeroDone ==
    /\ call = "parse"
    /\ \E i \in 1..Len(trace) :
          trace[i] = "hero" /\ (i < Len(trace) \/ pc = "preflop")

\* C8: once the hero stage has returned, if the button's seat is the hero's
\* seat then button, hero and the players entry of that seat are one Player
\* value, and it carries the hero's combo.
C8_ButtonIsHero ==
    (HeroDone /\ hh.a["button"].v.seat = hh.a["hero"].v.seat) =>
        /\ hh.a["button"] = hh.a["hero"]
        /\ hh.a["players"].v[hh.a["hero"].v.seat] = hh.a["hero"].v
        /\ hh.a["button"].v.combo = Val(Combo(<<"A", "h">>, <<"9", "d">>))

C8_Witness ==
    /\ HeroDone /\ hh.a["button"].v.seat = hh.a["hero"].v.seat
    /\ hh.a["button"].v.combo # None

\* the exceptions a stage raises because of what the text holds
TextErrors == {NoMatch, "InvalidOperation", "ValueError", "IndexError",
               "UnboundLocalError", "StopIteration", "OverflowError"}

\* C9: when a stage of a parse() call fails on the text (a pattern does not
\* match, a lookup fails), the call is over: the failing stage is the last
\* step the call started, no stage is running, and parsed is false.
C9_FailurePropagates ==
    (call = "parse" /\ err \in TextErrors) =>
        /\ pc = "idle"
        /\ ~hh.parsed
        /\ hh.parsed = snap.parsed

C9_Witness ==
    /\ call = "parse" /\ err = "ValueError" /\ pc = "idle"
    /\ trace[Len(trace)] = "hero" /\ ~hh.parsed

\* whether the text of the hand holds the marker of a street
HasMarker(h, marker) ==
    \E i \in 1..Len(Raw(h)) : Raw(h)[i] = Txt(marker)

\* C10: after a successful parse of a hand whose text has neither a TURN nor
\* a RIVER marker, turn and river are None, and board is the three flop
\* cards if the text has a FLOP marker and None if it has not.
C10_MissingStreets ==
    (ParseCompleted /\ ~HasMarker(hand, "TURN") /\ ~HasMarker(hand, "RIVER")) =>
        /\ hh.a["turn"] = None
        /\ hh.a["river"] = None
        /\ Board(hh) = IF HasMarker(hand, "FLOP")
                       THEN Val([i \in 1..3 |-> Card(FlopCards[i])])
                       ELSE None

C10_Witness ==
    /\ ParseCompleted /\ ~HasMarker(hand, "TURN") /\ ~HasMarker(hand, "RIVER")
    /\ HasMarker(hand, "FLOP")
    /\ Board(hh) = Val(<<Card(<<"8", "h">>), Card(<<"4", "h">>), Card(<<"T", "c">>)>>)

\* a hand whose lines every stage can read: a header line the header
\* pattern matches, with both blinds and a date _parse_date converts, every
\* amount written, seat lines in ascending order of seats from 1, the button on one of the seats up to the last
\* one, the hero among the seated names, a pot line
Readable(h) ==
    /\ HeaderMatch(h.hdr)
    /\ h.hdr.sb # <<>> /\ h.hdr.bb # <<>>
    /\ "raised" \notin DOMAIN ParseDate(h.hdr.date)
    /\ h.blank = "none"
    /\ h.seats # <<>>
    /\ \A i \in 1..Len(h.seats) : h.seats[i].seat >= 1 /\ h.seats[i].stack # <<>>
    /\ \A i \in 1..(Len(h.seats) - 1) : h.seats[i].seat < h.seats[i + 1].seat
    /\ h.button <= h.seats[Len(h.seats)].seat
    /\ \E i \in 1..Len(h.seats) : h.seats[i].name = h.heroName
    /\ h.potOK

\* a readable hand that ended without show down
WellFormed(h) == Readable(h) /\ ~h.showdown

\* the stage of the current parse() call has returned
StageDone(name) ==
    /\ call = "parse"
    /\ \E i \in 1..Len(trace) :
          trace[i] = name /\ (i < Len(trace) \/ err \in {"running", "ok"})

\* C11: in a parse() of a well formed hand that ends before the river, no
\* stage raises; once the stage owning a street whose marker is missing has
\* returned, that street's fields are None (flop; turn / river with their
\* actions, pot and number of players); the call ends only with all thirteen
\* stages run and parsed set, and extra then holds None for the missing
\* streets' pot and number of players.
C11_MissingMarkerNoError ==
    (call = "parse" /\ ~snap.parsed /\ WellFormed(hand) /\ hand.streets < 3) =>
        /\ err \in {"running", "ok"}
        /\ (pc = "idle" => hh.parsed /\ StagesRun = StageOrder)
        /\ (StageDone("flop") /\ ~HasMarker(hand, "FLOP") => hh.a["flop"] = None)
        /\ \A street \in {"turn", "river"} :
              (StageDone(street) /\ ~HasMarker(hand, Upper(street))) =>
                  /\ hh.a[street] = None
                  /\ hh.a[ActionsKey(street)] = None
                  /\ hh.a[PotKey(street)] = None
                  /\ hh.a[NumPlayersKey(street)] = None
                  /\ (hh.parsed =>
                        /\ hh.a["extra"].v[PotKey(street)] = None
                        /\ hh.a["extra"].v[NumPlayersKey(street)] = None)

C11_Witness ==
    /\ ParseCompleted /\ WellFormed(hand) /\ ~HasMarker(hand, "FLOP")
    /\ hh.a["flop"] = None /\ hh.a["turn"] = None /\ hh.a["river_pot"] = None
    /\ hh.a["extra"].v["turn_pot"] = None

\* C13 (as claimed): in a parse() of a readable hand, with or without show
\* down, the winners stage does not raise, and from then on winners holds
\* exactly the name the summary declares as the collector of the pot.
C13_WinnersAreCollectors ==
    (/\ call = "parse" /\ ~snap.parsed /\ Readable(hand)
     /\ \E i \in 1..Len(trace) : trace[i] = "winners") =>
        /\ err \in {"running", "ok"}
        /\ hh.a["winners"] = Val({WinnerName(hand)})

\* C14: in every state the split buffer is present iff the record is not
\* parsed: it is there from construction on, through header parses and
\* failed parses, and it is gone once parsed is true.
C14_BufferUntilParsed ==
    /\ hh.parsed => hh.splitted = Unset
    /\ ~hh.parsed => Truthy(hh.splitted) /\ hh.splitted.v = Split(Strip(Raw(hand)))

C14_Witness ==
    /\ ParseCompleted /\ Truthy(snap.splitted) /\ hh.splitted = Unset
    /\ calls > 1

\* C18 (as claimed): once the players stage has returned, whatever the order
\* and the subset of the seat lines, the entry at each index of players has
\* the seat number of that index, an entry whose seat has no seat line is the
\* empty-seat placeholder, and every seat that has a seat line is in players
\* with the name and the stack of its (last) line.
C18_PlayersIndexedBySeat ==
    StageDone("players") =>
        LET players == hh.a["players"].v
            lines == hand.seats
        IN  /\ \A i \in 1..Len(players) : players[i].seat = i
            /\ \A i \in 1..Len(players) :
                  (\A k \in 1..Len(lines) : lines[k].seat # i) =>
                      players[i] = Player(EmptySeatNames[i], 0, i, None)
            /\ \A k \in 1..Len(lines) :
                  (\A m \in (k + 1)..Len(lines) : lines[m].seat # lines[k].seat) =>
                      /\ lines[k].seat <= Len(players)
                      /\ players[lines[k].seat].name = lines[k].name
                      /\ players[lines[k].seat].stack = MakeInt(lines[k].stack)

\* C20 (as claimed): once the hero stage has returned, the button is on the
\* seat the button line names, and it is the hero's Player value only when
\* the hero sits on that seat, also when two players have the same name.
C20_ButtonKeepsSeat ==
    HeroDone =>
        /\ hh.a["button"].v.seat = hand.button
        /\ (hh.a["button"] = hh.a["hero"] => hh.a["hero"].v.seat = hand.button)

(***************************************************************************)
(* Properties of the board, checked under BoardSpec.                       *)
(***************************************************************************)
\* C12: whatever flop, turn and river a record holds, board is None without
\* a flop; with a flop it has 3, 4 or 5 cards and starts with the flop cards,
\* it has a fourth card iff the turn is present, and that card is the turn,
\* and a fifth iff turn and river are both present, and that card is the
\* river.
C12_BoardNoGaps ==
    last.prop = "board" =>
        LET flop == hh.a["flop"]
            turn == hh.a["turn"]
            river == hh.a["river"]
            board == last.got
        IN  /\ (flop = None <=> board = None)
            /\ flop # None =>
                  /\ Len(board.v) \in 3..5
                  /\ SubSeq(board.v, 1, 3) = flop.v.cards
                  /\ (Len(board.v) >= 4 <=> turn # None)
                  /\ (Len(board.v) >= 4 => board.v[4] = turn.v)
                  /\ (Len(board.v) = 5 <=> (turn # None /\ river # None))
                  /\ (Len(board.v) = 5 => board.v[5] = river.v)

C12_Witness ==
    /\ last.prop = "board"
    /\ hh.a["flop"] # None /\ hh.a["turn"] = None /\ hh.a["river"] # None
    /\ Len(last.got.v) = 3

(***************************************************************************)
(* Properties of the street, checked under StreetSpec.                     *)
(***************************************************************************)
\* the unordered pairs of the street's cards
CardPairs == {<<inst.cards[i], inst.cards[j]>> : i, j \in 1..Len(inst.cards)} \ 
             {<<inst.cards[i], inst.cards[i]>> : i \in 1..Len(inst.cards)}
HasRead(p) == cache[p] # Unset

SameSuited == \A pr \in CardPairs : pr[1].suit = pr[2].suit
DistinctSuited == \A pr \in CardPairs : pr[1].suit # pr[2].suit

\* C2 (as claimed): on a flop of three cards of one suit is_monotone reads
\* True and is_rainbow reads False, and on a flop of three suits is_rainbow
\* reads True, in whatever order the properties of the street are read.
C2_SuitTexture ==
    /\ (SameSuited /\ HasRead("is_monotone")) => cache["is_monotone"].v = TRUE
    /\ (SameSuited /\ HasRead("is_rainbow")) => cache["is_rainbow"].v = FALSE
    /\ (DistinctSuited /\ HasRead("is_rainbow")) => cache["is_rainbow"].v = TRUE

\* the canonical rank distance of a pair of cards
PairDistance(pr) == Abs(RankIndex(pr[1].rank) - RankIndex(pr[2].rank))

\* C3 (as claimed): whatever the order of the reads, has_pair reads true iff
\* some unordered pair of the cards shares a rank, has_flushdraw iff some
\* pair shares a suit, has_straightdraw iff some pair is at rank distance
\* 1..3, has_gutshot iff some pair is at rank distance 1..4.
C3_PairTexture ==
    /\ HasRead("has_pair") =>
          (cache["has_pair"].v <=> \E pr \in CardPairs : pr[1].rank = pr[2].rank)
    /\ HasRead("has_flushdraw") =>
          (cache["has_flushdraw"].v <=> \E pr \in CardPairs : pr[1].suit = pr[2].suit)
    /\ HasRead("has_straightdraw") =>
          (cache["has_straightdraw"].v <=> \E pr \in CardPairs : PairDistance(pr) \in 1..3)
    /\ HasRead("has_gutshot") =>
          (cache["has_gutshot"].v <=> \E pr \in CardPairs : PairDistance(pr) \in 1..4)

\* C19: the value a read of a property returns is the value stored for that
\* property; a stored value is never replaced, so every read returns what the
\* first read of the property returned, whatever is read in between; and no
\* read changes the cards, the actions or the pot of the street.
C19_CachedValuesStable ==
    /\ [](last.prop \in Props => (HasRead(last.prop) /\ last.got = cache[last.prop].v))
    /\ [][\A p \in Props : HasRead(p) => cache'[p] = cache[p]]_vars
    /\ [][inst' = inst]_vars

C19_Witness ==
    /\ nreads = 3
    /\ last.prop = "has_pair" /\ last.got = TRUE
    /\ Cardinality({p \in Props : HasRead(p)}) = 2
    /\ HasRead("is_triplet") /\ cache["is_triplet"].v = FALSE
    /\ itpos = 3

\* C21 (as claimed): whatever the order of the reads, once both properties
\* of a pair have been read on a street, has_straightdraw true implies
\* has_gutshot true, and is_triplet true implies has_pair true.
C21_TextureImplications ==
    /\ (HasRead("has_straightdraw") /\ HasRead("has_gutshot")) =>
          (cache["has_straightdraw"].v = TRUE => cache["has_gutshot"].v = TRUE)
    /\ (HasRead("is_triplet") /\ HasRead("has_pair")) =>
          (cache["is_triplet"].v = TRUE => cache["has_pair"].v = TRUE)

(***************************************************************************)
(* Properties of the players of a street, checked under PlayersSpec.       *)
(***************************************************************************)
\* the position of the first action of the street made by name
FirstActionOf(name) ==
    CHOOSE i \in 1..Len(inst.actions.v) :
        /\ inst.actions.v[i].name = name
        /\ \A j \in 1..(i - 1) : inst.actions.v[j].name # name

\* C15: once read, players is None when the street has no action; otherwise
\* it is a tuple that holds exactly the names of the street's actions, each
\* once, ordered by the position of each name's first action.
C15_PlayersFirstAppearance ==
    HasRead("players") =>
        LET got == cache["players"].v
        IN  /\ (inst.actions = None <=> got = None)
            /\ inst.actions # None =>
                  /\ {got.v[i] : i \in 1..Len(got.v)}
                        = {inst.actions.v[i].name : i \in 1..Len(inst.actions.v)}
                  /\ \A i, j \in 1..Len(got.v) :
                        i < j => FirstActionOf(got.v[i]) < FirstActionOf(got.v[j])

C15_Witness ==
    /\ HasRead("players") /\ inst.actions # None
    /\ Len(inst.actions.v) = 3
    /\ cache["players"].v = Val(<<"b", "a">>)
    /\ inst.actions.v[3].name = "b"

(***************************************************************************)
(* Properties of the splitter, checked under SplitSpec.                    *)
(***************************************************************************)
\* C16: on a constructed record the boundary-index list is strictly
\* ascending, every entry is a position of the fragment list, and a position
\* is an entry iff the fragment at that position is empty.
C16_SectionsAreEmptyFragments ==
    hh # Idle =>
        LET frags == hh.splitted.v
            sec == hh.sections
        IN  /\ \A i \in 1..(Len(sec) - 1) : sec[i] < sec[i + 1]
            /\ \A i \in 1..Len(sec) : sec[i] \in 0..(Len(frags) - 1)
            /\ \A pos \in 0..(Len(frags) - 1) :
                  (frags[pos + 1] = Empty) <=> (\E i \in 1..Len(sec) : sec[i] = pos)

C16_Witness ==
    /\ hh # Idle
    /\ hand.raw = <<Txt("A"), NL, NL, Txt("B"), STARS>>
    /\ hh.splitted.v = <<Txt("A"), Empty, Txt("B"), Empty>>
    /\ hh.sections = <<1, 3>>

(***************************************************************************)
(* Properties of the ranks, checked under RankSpec.                        *)
(***************************************************************************)
\* the strength of a rank with the ace high: 2..10, J 11, Q 12, K 13, A 14
Strength(r) ==
    CASE r = "2" -> 2 [] r = "3" -> 3 [] r = "4" -> 4 [] r = "5" -> 5
      [] r = "6" -> 6 [] r = "7" -> 7 [] r = "8" -> 8 [] r = "9" -> 9
      [] r = "T" -> 10 [] r = "J" -> 11 [] r = "Q" -> 12 [] r = "K" -> 13
      [] r = "A" -> 14

\* C17: for any two ranks a, b the value difference(a, b) is the distance of
\* their places in the sequence 2..K, A with the ace at the top, it equals
\* difference(b, a), it is 0 iff a = b, and it is 12 for the deuce and the
\* ace.
C17_DifferenceSymmetric ==
    last.prop = "difference" =>
        LET a == hand.first
            b == hand.second
        IN  /\ last.got = RankDifference(b, a)
            /\ last.got = (IF Strength(a) < Strength(b)
                           THEN Strength(b) - Strength(a)
                           ELSE Strength(a) - Strength(b))
            /\ (last.got = 0 <=> a = b)
            /\ ({a, b} = {"2", "A"} => last.got = 12)

C17_Witness ==
    /\ last.prop = "difference"
    /\ hand.first = "A" /\ hand.second = "2" /\ last.got = 12

====
